---- MODULE Spec2Model ----
(***************************************************************************)
(* State-machine model of BrowserCodeReader                                *)
(* (src/src/app/modules/ngx-zxing/browser-code-reader.ts).                 *)
(*                                                                         *)
(* The instance's fields are variables.  The browser around it is modelled *)
(* by what the code uses of it: the timers made by setTimeout, the         *)
(* getUserMedia promises still pending, the media streams whose track has  *)
(* not been stopped, and for every video element its srcObject and the     *)
(* listeners added to it.  Every handler runs to completion (one action),  *)
(* as on the single-threaded event loop.                                   *)
(***************************************************************************)
EXTENDS Integers, FiniteSets, Sequences, TLC

\* ---------------------------------------------------------------- bounds
MaxCalls == 2          \* scanning sessions begun in a run
MaxTimers == 2         \* timers pending at once

\* ------------------------------------------------------------ JS values
Undefined == 0
Null == -1
Truthy(x) == x > 0

Callbacks == 1..MaxCalls
\* The video elements: the one the caller passes to decodeFromInputVideoDevice
\* and the one prepareVideoElement creates when none is passed. A created
\* element is known to the instance only; once videoElement no longer refers
\* to it, it shows no stream and fires no event again, so the next created
\* element takes its place in the model.
UserElement == 1
CreatedElement == 2
NoElement == 0
Elements == {UserElement, CreatedElement}

\* document.createElement('video'): an element with no listener
Created(listeners) == [listeners EXCEPT ![CreatedElement] = <<>>]

Outcomes == {"Success", "NotFound", "Checksum", "Format", "Other"}
Payloads == {"ABC123", "XYZ789"}
\* values of the constructor's timeBetweenScans: its default and another
Delays == {500, 250}
\* decode's parameters retryIfNotFound, retryIfChecksumOrFormatError and once
Flags == BOOLEAN \X BOOLEAN \X BOOLEAN
\* their defaults, which this.decode.bind(this, callbackFn) leaves in place
SingleShotFlags == <<TRUE, TRUE, TRUE>>
DefaultFlags == <<TRUE, TRUE, FALSE>>
NoPayload == ""

VARIABLES
    timeBetweenScans,                  \* constructor parameter
    flags,                             \* the flags a fired timer runs decode with
    videoElement,                      \* Undefined or an element
    canvasElement,                     \* Undefined or 1 (a canvas)
    canvasElementContext,              \* Undefined or 1 (its 2d context)
    timeoutHandler,                    \* Undefined, Null or TimerId
    stream,                            \* Undefined, Null or a stream
    videoPlayingEventListener,         \* Undefined or the callback it closes over
    videoLoadedMetadataEventListener,  \* Undefined or the callback of its session
    timers,                            \* pending timers of setTimeout, in the order they fire
    pending,                           \* callbacks whose getUserMedia promise is unsettled
    live,                              \* acquired streams whose track is not stopped
    srcObject,                         \* element -> stream bound to it, or Undefined
    playingListeners,                  \* element -> 'playing' listeners, in order added
    metadataListeners,                 \* element -> 'loadedmetadata' listeners, in order added
    nextCb,                            \* number of the next session: names its callback and stream
    afterReset,                        \* reset() was called and no decodeFromInputVideoDevice since
    attemptParity,                     \* session -> its decode attempts so far, modulo 2 (counted under SpecLive)
    callbackReset,                     \* sessions whose callback has called reset() (recorded under SpecLive)
    last                               \* what the last handler did

fields == <<timeBetweenScans, flags, videoElement, canvasElement, canvasElementContext,
            timeoutHandler, stream, videoPlayingEventListener,
            videoLoadedMetadataEventListener>>
browser == <<timers, pending, live, srcObject, playingListeners, metadataListeners>>
vars == <<fields, browser, nextCb, afterReset, attemptParity, callbackReset, last>>

\* what a handler did: which operation, for which callback, and its effects
\* (invoked: calls of the callback, with arg; sched: timers it set; left: timers
\* pending when it started, the fired one aside; sink: the console method the
\* error was handed to)
NoLast ==
    [op |-> "init", cb |-> 0, outcome |-> "", payload |-> NoPayload, arg |-> NoPayload,
     retryIfNotFound |-> TRUE, retryIfChecksumOrFormatError |-> TRUE, once |-> FALSE,
     invoked |-> 0, sched |-> 0, left |-> 0, captured |-> FALSE, played |-> Undefined,
     threw |-> FALSE, sink |-> ""]

Construct ==
    /\ timeBetweenScans \in Delays
    /\ videoElement = Undefined
    /\ canvasElement = Undefined
    /\ canvasElementContext = Undefined
    /\ timeoutHandler = Undefined
    /\ stream = Undefined
    /\ videoPlayingEventListener = Undefined
    /\ videoLoadedMetadataEventListener = Undefined
    /\ timers = <<>>
    /\ pending = {}
    /\ live = {}
    /\ srcObject = [e \in Elements |-> Undefined]
    /\ playingListeners = [e \in Elements |-> <<>>]
    /\ metadataListeners = [e \in Elements |-> <<>>]
    /\ nextCb = 1
    /\ afterReset = FALSE
    /\ attemptParity = [c \in Callbacks |-> 0]
    /\ callbackReset = {}
    /\ last = NoLast

Init == Construct /\ flags = DefaultFlags

\* the instance, had its timers bound other values of decode's flags
InitFlags == Construct /\ flags \in Flags

\* ---------------------------------------------------------------- timers
\* Every timer of the instance is set with the delay timeBetweenScans, so the
\* pending timers fire in the order they were set: a queue, its head first.
\* The id setTimeout returns is only ever stored in timeoutHandler and handed
\* to clearTimeout, so a timer carries, instead of its id, whether its id is
\* the value of timeoutHandler (held), and timeoutHandler is TimerId when it
\* keeps the id of some timer, pending or not.
TimerId == 1

TimerAtOnce(kind, cb, held) == [kind |-> kind, cb |-> cb, delay |-> 0, held |-> held]
Timer(kind, cb, held) ==
    [kind |-> kind, cb |-> cb, delay |-> timeBetweenScans, held |-> held]

\* timeoutHandler is overwritten: no pending timer's id is its value any more
Unheld(tms) == [i \in DOMAIN tms |-> [tms[i] EXCEPT !.held = FALSE]]

\* decodeWithDelay(callbackFn), on st = [timers, handler, sched]: sched counts
\* the timers the running handler has set (the last sched entries of timers)
DecodeWithDelay(cb, st) ==
    [timers |-> Append(Unheld(st.timers), Timer("decode", cb, TRUE)),
     handler |-> TimerId,
     sched |-> st.sched + 1]

\* setTimeout(() => this.decodeWithDelay(callbackFn), this.timeBetweenScans):
\* the timer set after a Success; its id is kept nowhere
DelayDecodeWithDelay(cb, st) ==
    [timers |-> Append(st.timers, Timer("decodeWithDelay", cb, FALSE)),
     handler |-> st.handler,
     sched |-> st.sched + 1]

\* the 'playing' listeners of an element, run in the order they were added
RECURSIVE RunPlayingListeners(_, _)
RunPlayingListeners(ls, st) ==
    IF ls = <<>> THEN st
    ELSE RunPlayingListeners(Tail(ls), DecodeWithDelay(Head(ls), st))

\* ------------------------------------------------------- stop() and reset()
\* stop(): the timer timeoutHandler names is cleared, the held stream stopped
StopTimers(tms) ==
    IF Truthy(timeoutHandler)
    THEN SelectSeq(tms, LAMBDA t : ~t.held)
    ELSE tms
StopHandler == IF Truthy(timeoutHandler) THEN Null ELSE timeoutHandler
StopStream == IF Truthy(stream) THEN Null ELSE stream
StopLive == IF Truthy(stream) THEN live \ {stream} ELSE live

\* reset() sets this.videoElement to undefined and then calls
\* this.videoElement.removeEventListener for every listener field that is set:
\* a TypeError. (videoPlayEndedEventListener and imageElement are never set.)
ResetThrows ==
    /\ videoElement # Undefined
    /\ \/ videoPlayingEventListener # Undefined
       \/ videoLoadedMetadataEventListener # Undefined

ResetSrcObject ==
    IF videoElement # Undefined
    THEN [srcObject EXCEPT ![videoElement] = Undefined]
    ELSE srcObject

\* canvasElementContext and canvasElement are cleared by the last two
\* statements of reset(), which a throw skips
ResetCanvas(canvas) == IF ResetThrows THEN canvas ELSE Undefined

\* ------------------------------------------------------ decode()'s decisions
\* callbackFn(result) is reached exactly when readerDecode returns
CallbackInvocationsOnAnyOutcome(outcome) == 1
CallbackInvocations(outcome) == IF outcome = "Success" THEN 1 ELSE 0

\* it is handed the decoder's result
CallbackArgument(payload) == payload

\* after the callback: if (!once && !!this.stream)
RescheduleAfterSuccessIgnoringOnce(once, strm) == Truthy(strm)
RescheduleUnlessStreamHeld(once, strm) == ~once /\ ~Truthy(strm)
RescheduleAfterSuccess(once, strm) == ~once /\ Truthy(strm)

\* the catch block: which failures call decodeWithDelay
RetryAlwaysIfNotFound(outcome, retryIfNotFound, retryIfChecksumOrFormatError) ==
    IF outcome = "NotFound" THEN TRUE
    ELSE retryIfChecksumOrFormatError /\ outcome \in {"Checksum", "Format"}
RetryChecksumOnlyWithoutNotFound(outcome, retryIfNotFound, retryIfChecksumOrFormatError) ==
    IF retryIfNotFound THEN outcome = "NotFound"
    ELSE retryIfChecksumOrFormatError /\ outcome \in {"Checksum", "Format"}
RetryAfterFailure(outcome, retryIfNotFound, retryIfChecksumOrFormatError) ==
    IF retryIfNotFound /\ outcome = "NotFound" THEN TRUE
    ELSE retryIfChecksumOrFormatError /\ outcome \in {"Checksum", "Format"}

\* ------------------------------------------------------------- operations
\* reset(), called by the user
Reset ==
    /\ timers' = StopTimers(timers)
    /\ timeoutHandler' = StopHandler
    /\ stream' = StopStream
    /\ live' = StopLive
    /\ srcObject' = ResetSrcObject
    /\ videoElement' = Undefined
    /\ canvasElementContext' = ResetCanvas(canvasElementContext)
    /\ canvasElement' = ResetCanvas(canvasElement)
    /\ afterReset' = TRUE
    /\ last' = [NoLast EXCEPT !.op = "reset", !.threw = ResetThrows]
    /\ UNCHANGED <<timeBetweenScans, flags, videoPlayingEventListener,
                   videoLoadedMetadataEventListener, pending, playingListeners,
                   metadataListeners, nextCb, attemptParity, callbackReset>>

\* decodeFromInputVideoDevice(callbackFn, deviceId, el): reset(), then
\* prepareVideoElement and the getUserMedia request. A throw of reset() leaves
\* the call before prepareVideoElement.
DecodeFromInputVideoDevice(el) ==
    /\ nextCb <= MaxCalls
    /\ timers' = StopTimers(timers)
    /\ timeoutHandler' = StopHandler
    /\ stream' = StopStream
    /\ live' = StopLive
    /\ srcObject' = ResetSrcObject
    /\ canvasElementContext' = ResetCanvas(canvasElementContext)
    /\ canvasElement' = ResetCanvas(canvasElement)
    /\ IF ResetThrows
       THEN /\ videoElement' = Undefined
            /\ UNCHANGED <<pending, nextCb, playingListeners, metadataListeners>>
       ELSE /\ videoElement' = IF el = NoElement THEN CreatedElement ELSE el
            /\ playingListeners' =
                   IF el = NoElement THEN Created(playingListeners) ELSE playingListeners
            /\ metadataListeners' =
                   IF el = NoElement THEN Created(metadataListeners) ELSE metadataListeners
            /\ pending' = pending \cup {nextCb}
            /\ nextCb' = nextCb + 1
    /\ afterReset' = FALSE
    /\ last' = [NoLast EXCEPT !.op = "decodeFromInputVideoDevice", !.cb = nextCb,
                              !.threw = ResetThrows]
    /\ UNCHANGED <<timeBetweenScans, flags, videoPlayingEventListener,
                   videoLoadedMetadataEventListener, attemptParity, callbackReset>>

\* getUserMedia resolves with a new stream (named after its request):
\* startDecodeFromStream(stream, callbackFn). this.stream is assigned first;
\* "'srcObject' in this.videoElement" throws when videoElement is undefined, and
\* the promise's catch hands the TypeError to console.error.
StreamResolved(cb) ==
    /\ cb \in pending
    /\ pending' = pending \ {cb}
    /\ live' = live \cup {cb}
    /\ stream' = cb
    /\ IF videoElement = Undefined
       THEN /\ last' = [NoLast EXCEPT !.op = "startDecodeFromStream", !.cb = cb,
                                      !.sink = "console.error"]
            /\ UNCHANGED <<srcObject, videoPlayingEventListener,
                           videoLoadedMetadataEventListener, playingListeners,
                           metadataListeners>>
       ELSE /\ srcObject' = [srcObject EXCEPT ![videoElement] = cb]
            /\ videoPlayingEventListener' = cb
            /\ videoLoadedMetadataEventListener' = cb
            /\ playingListeners' =
                   [playingListeners EXCEPT ![videoElement] = Append(@, cb)]
            /\ metadataListeners' =
                   [metadataListeners EXCEPT ![videoElement] = Append(@, cb)]
            /\ last' = [NoLast EXCEPT !.op = "startDecodeFromStream", !.cb = cb]
    /\ UNCHANGED <<timeBetweenScans, flags, videoElement, canvasElement, canvasElementContext,
                   timeoutHandler, timers, nextCb, afterReset, attemptParity, callbackReset>>

\* getUserMedia rejects: console.error(err)
StreamRejected(cb) ==
    /\ cb \in pending
    /\ pending' = pending \ {cb}
    /\ last' = [NoLast EXCEPT !.op = "getUserMediaRejected", !.cb = cb,
                              !.sink = "console.error"]
    /\ UNCHANGED <<fields, timers, live, srcObject, playingListeners,
                   metadataListeners, nextCb, afterReset, attemptParity, callbackReset>>

\* 'loadedmetadata' on an element showing a live stream: every listener runs
\* this.videoElement.play() (a TypeError when videoElement is undefined)
LoadedMetadata(e) ==
    /\ srcObject[e] \in live
    /\ metadataListeners[e] # <<>>
    /\ last' = [NoLast EXCEPT !.op = "loadedmetadata", !.played = videoElement,
                              !.threw = (videoElement = Undefined)]
    /\ UNCHANGED <<fields, timers, pending, live, srcObject, playingListeners,
                   metadataListeners, nextCb, afterReset, attemptParity, callbackReset>>

\* 'playing' on an element showing a live stream (playback started or resumed):
\* every listener runs decodeWithDelay(callbackFn)
Playing(e) ==
    /\ srcObject[e] \in live
    /\ playingListeners[e] # <<>>
    /\ Len(timers) + Len(playingListeners[e]) <= MaxTimers
    /\ LET st == RunPlayingListeners(playingListeners[e],
                     [timers |-> timers, handler |-> timeoutHandler, sched |-> 0])
       IN  /\ timers' = st.timers
           /\ timeoutHandler' = st.handler
           /\ last' = [NoLast EXCEPT !.op = "playing", !.sched = st.sched,
                                     !.left = Len(timers)]
    /\ UNCHANGED <<timeBetweenScans, flags, videoElement, canvasElement, canvasElementContext,
                   stream, videoPlayingEventListener, videoLoadedMetadataEventListener,
                   pending, live, srcObject, playingListeners, metadataListeners,
                   nextCb, afterReset, attemptParity, callbackReset>>

\* decode(callbackFn, retryIfNotFound, retryIfChecksumOrFormatError, once), with
\* f its three flags and tms the timers pending when it starts. The inputs are
\* a = <<the decoder's outcome, the payload of a Success, whether the user's
\* callback calls reset()>>.
Decode(cb, f, a, tms) ==
    LET retryIfNotFound == f[1]
        retryIfChecksumOrFormatError == f[2]
        once == f[3]
        outcome == a[1]
        payload == a[2]
        cbResets == a[3]
        called == [NoLast EXCEPT !.op = "decode", !.cb = cb,
                       !.retryIfNotFound = retryIfNotFound,
                       !.retryIfChecksumOrFormatError = retryIfChecksumOrFormatError,
                       !.once = once, !.left = Len(tms)]
    IN
    IF videoElement = Undefined
    THEN \* before the try: prepareCaptureCanvas reads this.imageElement.naturalWidth,
         \* or drawImage is handed undefined; imageElement is never set: a TypeError
         /\ timers' = tms
         /\ last' = [called EXCEPT !.threw = TRUE]
         /\ UNCHANGED <<fields, pending, live, srcObject, playingListeners,
                        metadataListeners, nextCb, afterReset>>
    ELSE LET invoked == CallbackInvocations(outcome)
             resets == invoked > 0 /\ cbResets
             \* what the catch block receives: the decoder's failure, or the
             \* TypeError of a reset() made by the callback
             caught == IF outcome # "Success" THEN outcome
                       ELSE IF resets /\ ResetThrows THEN "Other" ELSE ""
             strm == IF resets THEN StopStream ELSE stream
             st1 == [timers |-> IF resets THEN StopTimers(tms) ELSE tms,
                     handler |-> IF resets THEN StopHandler ELSE timeoutHandler,
                     sched |-> 0]
             st2 == IF caught = ""
                    THEN IF RescheduleAfterSuccess(once, strm)
                         THEN DelayDecodeWithDelay(cb, st1) ELSE st1
                    ELSE IF RetryAfterFailure(caught, retryIfNotFound,
                                              retryIfChecksumOrFormatError)
                         THEN DecodeWithDelay(cb, st1) ELSE st1
         IN  /\ timers' = st2.timers
             /\ timeoutHandler' = st2.handler
             /\ stream' = strm
             /\ live' = IF resets THEN StopLive ELSE live
             /\ srcObject' = IF resets THEN ResetSrcObject ELSE srcObject
             /\ videoElement' = IF resets THEN Undefined ELSE videoElement
             /\ canvasElementContext' = IF resets THEN ResetCanvas(1) ELSE 1
             /\ canvasElement' = IF resets THEN ResetCanvas(1) ELSE 1
             /\ last' = [called EXCEPT !.outcome = outcome, !.payload = payload,
                             !.invoked = invoked,
                             !.arg = IF invoked > 0 THEN CallbackArgument(payload)
                                     ELSE NoPayload,
                             !.sched = st2.sched,
                             !.captured = TRUE,
                             !.sink = IF caught # "" THEN "console.log" ELSE ""]
             /\ UNCHANGED <<timeBetweenScans, flags, videoPlayingEventListener,
                            videoLoadedMetadataEventListener, pending,
                            playingListeners, metadataListeners, nextCb,
                            afterReset>>

\* the decoder's possible answers on one frame
DecoderAnswers ==
    {<<o, p, r>> \in Outcomes \X (Payloads \cup {NoPayload}) \X BOOLEAN :
        /\ (o = "Success") = (p # NoPayload)
        /\ r => (o = "Success")}

\* a timer set by decodeWithDelay fires: this.decode.bind(this, callbackFn) runs
\* decode, its three flags at their defaults (flags = DefaultFlags under Spec)
DecodeTimerFires ==
    /\ timers # <<>>
    /\ Head(timers).kind = "decode"
    /\ \E a \in DecoderAnswers :
           Decode(Head(timers).cb, flags, a, Tail(timers))
    /\ UNCHANGED <<attemptParity, callbackReset>>

\* the same step, the attempt counted for its session; when it captured a
\* frame and the video element is gone after it, its callback has called reset()
CountedDecodeTimerFires ==
    /\ timers # <<>>
    /\ Head(timers).kind = "decode"
    /\ \E a \in DecoderAnswers :
           Decode(Head(timers).cb, flags, a, Tail(timers))
    /\ attemptParity' = [attemptParity EXCEPT ![Head(timers).cb] = 1 - @]
    /\ callbackReset' =
           IF last'.captured /\ videoElement' = Undefined
           THEN callbackReset \cup {Head(timers).cb}
           ELSE callbackReset

\* the timer set after a Success fires: decodeWithDelay(callbackFn)
DelayTimerFires ==
    /\ timers # <<>>
    /\ Head(timers).kind = "decodeWithDelay"
    /\ LET st == DecodeWithDelay(Head(timers).cb,
                     [timers |-> Tail(timers), handler |-> timeoutHandler, sched |-> 0])
       IN  /\ timers' = st.timers
           /\ timeoutHandler' = st.handler
           /\ last' = [NoLast EXCEPT !.op = "decodeWithDelay", !.cb = Head(timers).cb,
                                     !.sched = st.sched, !.left = Len(Tail(timers))]
    /\ UNCHANGED <<timeBetweenScans, flags, videoElement, canvasElement, canvasElementContext,
                   stream, videoPlayingEventListener, videoLoadedMetadataEventListener,
                   pending, live, srcObject, playingListeners, metadataListeners,
                   nextCb, afterReset, attemptParity, callbackReset>>

Next ==
    \/ Reset
    \/ \E el \in {UserElement, NoElement} : DecodeFromInputVideoDevice(el)
    \/ \E cb \in Callbacks : StreamResolved(cb)
    \/ \E cb \in Callbacks : StreamRejected(cb)
    \/ \E e \in Elements : LoadedMetadata(e)
    \/ \E e \in Elements : Playing(e)
    \/ DecodeTimerFires
    \/ DelayTimerFires

\* the instance driven through its public methods and the browser's events
Spec == Init /\ [][Next]_vars

\* the same, with every value of decode's flags
SpecFlags == InitFlags /\ [][Next]_vars

\* the same steps, the decode attempts counted and the resets of callbacks
\* recorded
NextLive ==
    \/ Reset
    \/ \E el \in {UserElement, NoElement} : DecodeFromInputVideoDevice(el)
    \/ \E cb \in Callbacks : StreamResolved(cb)
    \/ \E cb \in Callbacks : StreamRejected(cb)
    \/ \E e \in Elements : LoadedMetadata(e)
    \/ \E e \in Elements : Playing(e)
    \/ CountedDecodeTimerFires
    \/ DelayTimerFires

\* the event loop runs the function of a pending timer once its delay has
\* passed: a timer that stays the next to fire does fire
SpecLive ==
    /\ Init
    /\ [][NextLive]_vars
    /\ WF_vars(CountedDecodeTimerFires)
    /\ WF_vars(DelayTimerFires)

\* ------------------------------------------------------------------ claims
\* the timers the last handler set: they are the newest of the queue
Scheduled == SubSeq(timers, Len(timers) - last.sched + 1, Len(timers))

\* the session begun by the latest decodeFromInputVideoDevice call
CurrentSession == nextCb - 1

\* C1: whatever calls, stream results, 'playing' signals, timer firings and
\* decode outcomes have happened, at most one timer set by the instance is
\* pending, the timer set after a Success included.
C1_AtMostOnePendingTimer == Len(timers) <= 1

\* C2: once decodeFromInputVideoDevice has begun a new session, the session
\* before it holds no stream and no timer, and no decode attempt runs for an
\* earlier session: none captures a frame, none invokes its callback.
C2_SessionIsolation ==
    /\ (last.op = "decodeFromInputVideoDevice" /\ ~last.threw) =>
           (~Truthy(stream) /\ ~Truthy(timeoutHandler))
    /\ (last.op = "decode" /\ last.cb < CurrentSession) =>
           (~last.captured /\ last.invoked = 0)

\* C3: at every instant at most one acquired stream has not been stopped.
C3_AtMostOneLiveStream == Cardinality(live) <= 1

\* C4: reset() raises no error, in whatever state it is called.
C4_ResetRaisesNoError == (last.op = "reset") => ~last.threw

\* C5: right after reset() no stream is held or live, no timer is pending and
\* the video element, the canvas and its context are cleared.
C5_ResetReleasesEverything ==
    (last.op = "reset") =>
        /\ ~Truthy(stream)
        /\ live = {}
        /\ timers = <<>>
        /\ videoElement = Undefined
        /\ canvasElement = Undefined
        /\ canvasElementContext = Undefined

\* C6: from reset() until the next decodeFromInputVideoDevice the instance is
\* idle: no stream becomes held, no handler sets a timer, no decode attempt
\* runs, no frame is captured and no callback is invoked.
C6_IdleAfterReset ==
    afterReset =>
        /\ ~Truthy(stream)
        /\ last.sched = 0
        /\ last.op # "decode"
        /\ ~last.captured
        /\ last.invoked = 0

C7_WitnessRetry ==
    /\ last.op = "decode" /\ last.outcome = "NotFound"
    /\ last.retryIfNotFound
    /\ timeBetweenScans = 250
    /\ timers = <<Timer("decode", last.cb, TRUE)>>

\* C8: with once true, a Success invokes the callback exactly once and sets
\* no timer, whether or not the stream is still held.
C8_SingleShot ==
    (last.op = "decode" /\ last.outcome = "Success" /\ last.once) =>
        /\ last.invoked = 1
        /\ last.sched = 0
        /\ Len(timers) <= last.left

\* a Success with once true while the stream is held and live
C8_Witness ==
    /\ last.op = "decode" /\ last.outcome = "Success" /\ last.once
    /\ last.invoked = 1
    /\ Truthy(stream) /\ stream \in live
    /\ timers = <<>>

\* the same after the callback has called reset(): no stream is held
C8_WitnessNotHeld ==
    /\ last.op = "decode" /\ last.outcome = "Success" /\ last.once
    /\ last.invoked = 1
    /\ ~Truthy(stream)

C10_FatalHalts ==
    (last.op = "decode" /\ last.outcome = "Other") =>
        /\ last.invoked = 0
        /\ last.sink # ""
        /\ timers = <<>>

\* C11: a Success with once false, on a stream still held and live, sets one
\* timer; that timer runs the next decode attempt, timeBetweenScans after the
\* successful one.
C11_NextAttemptAfterDelay ==
    (/\ last.op = "decode" /\ last.outcome = "Success" /\ ~last.once
     /\ Truthy(stream) /\ stream \in live) =>
        /\ last.sched = 1
        /\ Scheduled[1].kind = "decode"
        /\ Scheduled[1].cb = last.cb
        /\ Scheduled[1].delay = timeBetweenScans

\* the sessions that have a timer pending or a 'playing' listener on an element
Scanning ==
    {timers[i].cb : i \in DOMAIN timers}
        \cup UNION {{playingListeners[e][i] : i \in DOMAIN playingListeners[e]} :
                        e \in Elements}

\* C12: when the stream request is rejected the error is handed to the error
\* sink and the instance is idle: no stream is held, no timer is pending, the
\* session has no timer and no listener that could set one, and its request is
\* not pending again.
C12_RejectionLeavesIdle ==
    (last.op = "getUserMediaRejected") =>
        /\ last.sink = "console.error"
        /\ ~Truthy(stream)
        /\ timers = <<>>
        /\ last.cb \notin Scanning
        /\ last.cb \notin pending

\* the part of C12 that is about the rejected session alone
C12_RejectedSessionNeverScans ==
    (last.op = "getUserMediaRejected") =>
        /\ last.sink = "console.error"
        /\ stream # last.cb
        /\ last.cb \notin Scanning
        /\ last.cb \notin pending

\* the pending timers of session c
TimersOf(c) == {i \in DOMAIN timers : timers[i].cb = c}

\* C13: a timer is set only by the 'playing' signal or by a decode attempt
\* that has completed (directly, or through the timer a Success sets), and
\* never while another attempt of the same session is scheduled: no session
\* has two timers pending. (A handler runs to completion, so two attempts
\* never run at once.)
C13_OneAttemptInFlight ==
    /\ last.sched > 0 => last.op \in {"playing", "decode", "decodeWithDelay"}
    /\ \A c \in Callbacks : Cardinality(TimersOf(c)) <= 1

\* C14: no error leaves a decode attempt run by a timer: the attempt throws
\* nothing, every failure of the decoder has one of the outcomes NotFound,
\* Checksum, Format (ChecksumOrFormatError) or Other (Fatal) and is handed to
\* the console before anything is scheduled.
C14_NoErrorEscapesDecode ==
    (last.op = "decode") =>
        /\ ~last.threw
        /\ last.outcome \in Outcomes
        /\ (last.outcome # "Success") => last.sink # ""

\* the part of C14 that is about the decoder's failures: once the frame is
\* captured, whatever the decoder throws is caught and logged
C14_DecoderFailuresCaught ==
    (last.op = "decode" /\ last.captured) =>
        /\ ~last.threw
        /\ (last.outcome # "Success") => last.sink = "console.log"

\* C15: 'playing' alone starts the scan. A step that resolves or rejects the
\* stream request, or handles 'loadedmetadata', leaves the timers as they are,
\* and 'loadedmetadata' only plays the video element; the first timer of a
\* session is set by a 'playing' step; and every timer a 'playing' step sets
\* runs a decode attempt after timeBetweenScans. This holds of every step, so
\* in whichever order 'loadedmetadata' and 'playing' arrive.
C15_PlayingIsSoleTrigger ==
    [][/\ last'.op \in {"startDecodeFromStream", "getUserMediaRejected", "loadedmetadata"}
            => timers' = timers
       /\ last'.op = "loadedmetadata"
            => (last'.threw \/ last'.played = videoElement)
       /\ \A c \in Callbacks :
            (TimersOf(c) = {} /\ \E i \in DOMAIN timers' : timers'[i].cb = c)
                => last'.op = "playing"
       /\ last'.op = "playing"
            => /\ Len(timers') > Len(timers)
               /\ \A i \in (Len(timers) + 1)..Len(timers') :
                      /\ timers'[i].kind = "decode"
                      /\ timers'[i].delay = timeBetweenScans
      ]_vars

\* 'playing' has set the first timer of the current session, nothing else
\* pending: the first attempt, timeBetweenScans (the default 500) later
C15_Witness ==
    /\ last.op = "playing" /\ last.sched = 1 /\ last.left = 0
    /\ timeBetweenScans = 500
    /\ timers = <<Timer("decode", CurrentSession, TRUE)>>

\* 'loadedmetadata' arriving after 'playing': the timer 'playing' set is pending
C15_WitnessMetadataAfterPlaying ==
    /\ last.op = "loadedmetadata" /\ last.played = videoElement
    /\ timers = <<Timer("decode", CurrentSession, TRUE)>>

C16_WitnessHalt ==
    /\ last.op = "decode" /\ last.outcome = "Format"
    /\ ~last.retryIfChecksumOrFormatError
    /\ Truthy(stream) /\ stream \in live
    /\ last.left = 0 /\ timers = <<>>

\* a Checksum failure retried with retryIfNotFound false
C16_WitnessNotFoundOff ==
    /\ last.op = "decode" /\ last.outcome = "Checksum"
    /\ ~last.retryIfNotFound /\ last.retryIfChecksumOrFormatError
    /\ timers = <<Timer("decode", last.cb, TRUE)>>

C17_ChainPending ==
    (/\ last.op = "decode" /\ last.captured /\ last.outcome # "Other"
     /\ Truthy(stream)) => TimersOf(last.cb) # {}

\* and a session loses its last timer only when that timer fires for a decode
\* attempt or when stop() has run, in reset()
C17_TimerKeptUntilFired ==
    [][\A c \in Callbacks :
          (TimersOf(c) # {} /\ ~\E i \in DOMAIN timers' : timers'[i].cb = c)
              => \/ last'.op \in {"reset", "decodeFromInputVideoDevice"}
                 \/ last'.op = "decode" /\ (last'.cb = c \/ ~Truthy(stream'))
      ]_vars

C18_WitnessGoesOn ==
    /\ last.op = "decode" /\ last.outcome = "NotFound"
    /\ last.retryIfNotFound /\ ~last.once
    /\ ~Truthy(stream)
    /\ last.sched = 1 /\ timers = <<Timer("decode", last.cb, TRUE)>>

\* the loop stopped by a Success while no stream is held
C18_WitnessSuccessNotHeld ==
    /\ last.op = "decode" /\ last.outcome = "Success" /\ last.invoked = 1
    /\ ~Truthy(stream)
    /\ last.sched = 0 /\ timers = <<>>

C19_CallbackResetEndsScan ==
    [][/\ (last'.op = "decode" /\ last'.captured /\ videoElement' = Undefined)
            => (last'.outcome = "Success" /\ last'.invoked = 1 /\ last'.sched = 0)
       /\ (last'.op = "decode" /\ last'.cb \in callbackReset)
            => last'.invoked = 0
      ]_vars

\* the part of C19 that is about the attempt itself and the time until
\* decodeFromInputVideoDevice is called again: the video element stays
\* undefined, so an attempt of a timer left over throws before the callback
C19_NoInvocationUntilNextSession ==
    [][/\ (last'.op = "decode" /\ last'.captured /\ videoElement' = Undefined)
            => (last'.outcome = "Success" /\ last'.invoked = 1 /\ last'.sched = 0)
       /\ (last'.op = "decode" /\ videoElement = Undefined)
            => (last'.invoked = 0 /\ last'.sched = 0)
      ]_vars

====
